---- MODULE Spec2Model ----
(***************************************************************************)
(* Authenticated streaming query gateway of rpa-landuse-backend:           *)
(* credential check (app/dependencies.py, app/api/v1/auth.py), the daily   *)
(* usage ledger (app/services/academic_user_service.py), the chat          *)
(* endpoints (app/api/v1/chat.py) and the heartbeat relay                  *)
(* (app/services/agent_service.py).                                        *)
(***************************************************************************)
EXTENDS Integers, Sequences, FiniteSets, TLC

(***************************************************************************)
(* Bounds of the model.                                                    *)
(***************************************************************************)
\* daily_limit the ledger is configured with (a deployment setting)
DailyLimit == 1
\* requests that are started in one behaviour
MaxRequests == 2
\* latest instant the clock reaches (instants are numbered from 0)
MaxNow == 2
\* instants in one calendar day
TicksPerDay == 2
\* lifetime of an access and of a refresh credential, in instants
AccessTTL == 1
RefreshTTL == 2
\* content/tool events one upstream run yields before it finishes or fails
MaxEvents == 2
\* idle timeouts of one relay
MaxHeartbeats == 1
\* largest number of instants the server's local time is ahead of UTC
MaxUtcOffset == 1
\* operations on /auth in one behaviour
MaxAuthOps == 2

\* turns a session holds at the start
MaxStored == 11
\* operations on the session store (context, clear, read)
MaxSessionOps == 2

\* self._sessions[session_id][-10:]
HistoryLimit == 10

\* the request contexts that can be in flight at the same time
Slots == {1, 2}

(***************************************************************************)
(* A behaviour explores one scope of the environment, fixed at the start:  *)
(*   "gate":   one request at a time, every configuration and every kind   *)
(*             of credential, an upstream that finishes or fails at once;  *)
(*   "ledger": two requests in flight together, valid credentials, an      *)
(*             upstream that finishes or fails at once;                    *)
(*   "relay":  one request at a time, valid credentials, an upstream that  *)
(*             yields content/tool events and can stay idle.               *)
(* These three are the scopes of Spec.  SpecCancel explores "cancel" (the  *)
(* "relay" scope with a client that can disconnect), SpecSession explores  *)
(* "session" (the /auth endpoints, any credential, a running clock) and    *)
(* SpecPeriod explores "period" (the ledger over a day boundary).          *)
(* SpecStorage explores "storage" (the "relay" scope with a store that can *)
(* become unreachable) and SpecContext explores "context" (sessions that   *)
(* already hold turns, their context, their clearing and their reading).   *)
(* SpecRelay is the "relay" scope under fair scheduling, and SpecAppend    *)
(* explores "append" (two requests in flight together on one or two        *)
(* sessions, an upstream that answers with text).                          *)
(***************************************************************************)
Scopes == {"gate", "ledger", "relay"}

(***************************************************************************)
(* Identities.  An email is a sequence of characters; the ledger           *)
(* normalises it with email.lower().strip().                               *)
(***************************************************************************)
IdA == <<"a">>
IdB == <<"b">>
Identities == {IdA, IdB}

LowerChar(c) ==
  CASE c = "A" -> "a"
    [] c = "B" -> "b"
    [] OTHER -> c

Lower(s) == [i \in 1..Len(s) |-> LowerChar(s[i])]

RECURSIVE LStrip(_)
LStrip(s) == IF s # <<>> /\ Head(s) = " " THEN LStrip(Tail(s)) ELSE s

RECURSIVE RStrip(_)
RStrip(s) ==
  IF s # <<>> /\ s[Len(s)] = " " THEN RStrip(SubSeq(s, 1, Len(s) - 1)) ELSE s

Strip(s) == RStrip(LStrip(s))

\* the email is lowered and keeps its surrounding whitespace
NormalizeEmail_LowerOnly(email) == Lower(email)

NormalizeEmail(email) == Strip(Lower(email))

(***************************************************************************)
(* Credentials: the claim set of a JWT and whether its signature verifies  *)
(* under the server's secret.                                              *)
(***************************************************************************)
NoEmail == <<>>

NoToken ==
  [type |-> "none", exp |-> 0, email |-> NoEmail, tier |-> "", sig |-> FALSE]

Token(type, exp, email, tier, sig) ==
  [type |-> type, exp |-> exp, email |-> email, tier |-> tier, sig |-> sig]

\* a cookie value that is not a JWT
Malformed ==
  [type |-> "malformed", exp |-> 0, email |-> NoEmail, tier |-> "", sig |-> FALSE]

\* the cookie jar of a client that holds no credential
NoCookies == [access_token |-> NoToken, refresh_token |-> NoToken]

\* no operation on /auth yet
NoOp ==
  [op |-> "none", n |-> 0, authenticated |-> FALSE, presented |-> NoToken,
   kind |-> "missing", before |-> NoCookies, at |-> 0, email |-> NoEmail,
   queries_remaining |-> 0]

\* a message of the conversation context handed to the upstream
Message(role, content) == [role |-> role, content |-> content]

\* no operation on the session store yet
NoSessionOp ==
  [op |-> "none", n |-> 0, session_id |-> "", question |-> 0, messages |-> <<>>,
   returned |-> FALSE, history |-> <<>>, agent_cleared |-> FALSE]

VARIABLES
  scope,        \* the scope of the environment this behaviour explores
  settings,     \* Settings: auth_enabled, academic_tier_enabled, has_anthropic_key
  now,          \* the wall clock
  agent,        \* AgentService._agent: "None" or "agent"
  query_usage,  \* table query_usage: rows (email, query_date, query_count)
  sessions,     \* AgentService._sessions: session id -> turns
  started,      \* requests started so far
  req,          \* per request context: the request, its progress and response
  relay,        \* per request context: the upstream run and the relay's locals
  audit,        \* history: per (identity, day), the increment calls made and
                \* the requests whose upstream work completed
  auth_jwt_secret,  \* Settings.auth_jwt_secret: "" when not configured
  utc_offset,   \* instants the server's local time is ahead of UTC
  cookies,      \* the client's cookie jar: access_token and refresh_token
  issued,       \* history: every credential create_token returned, and when
  last,         \* history: the last operation on /auth and its response
  store_up,     \* whether the DuckDB/MotherDuck store can be connected to
  academic_users,  \* table academic_users: rows (email, created_at, last_access)
  session_op    \* history: the last operation on the session store and its result

vars ==
  <<scope, settings, now, agent, query_usage, sessions, started, req, relay, audit,
    auth_jwt_secret, utc_offset, cookies, issued, last,
    store_up, academic_users, session_op>>

\* the deployment's secret and time zone, and the state of the /auth endpoints
authstate == <<auth_jwt_secret, utc_offset, cookies, issued, last>>

\* the state of the chat endpoints
chatstate == <<agent, query_usage, sessions, started, req, relay, audit>>

\* the reachability of the store, the table of registered users and the
\* history of the session store
storestate == <<store_up, academic_users, session_op>>

(***************************************************************************)
(* auth.py: verify_token / decode_token.  jwt.decode checks the signature  *)
(* and the exp claim (expired when exp <= now); ExpiredSignatureError is   *)
(* an InvalidTokenError, so decode_token returns None for it too.          *)
(***************************************************************************)
\* a credential is still taken at the instant of its exp claim
JwtDecodes_AtExpiry(token) ==
  token.type # "malformed" /\ token.sig /\ token.exp >= now

\* the signature is not verified
JwtDecodes_Unsigned(token) == token.type # "malformed" /\ token.exp > now

\* jwt.decode: a cookie value that is not a JWT raises DecodeError, a wrong
\* signature InvalidSignatureError, exp <= now ExpiredSignatureError
JwtDecodes(token) == token.type # "malformed" /\ token.sig /\ token.exp > now

\* a refresh credential passes for any type
verify_token_RefreshPasses(token, token_type) ==
  auth_jwt_secret # "" /\ JwtDecodes(token)
  /\ (token.type = token_type \/ token.type = "refresh")

\* the type claim is not compared
verify_token_AnyType(token, token_type) ==
  auth_jwt_secret # "" /\ JwtDecodes(token)

verify_token(token, token_type) ==
  IF auth_jwt_secret = "" THEN FALSE
  ELSE JwtDecodes(token) /\ token.type = token_type

decode_token(token) ==
  IF auth_jwt_secret = "" THEN FALSE ELSE JwtDecodes(token)

(***************************************************************************)
(* academic_user_service.py: the ledger.                                   *)
(***************************************************************************)
\* date.today(): the date in the server's local time zone
today == (now + utc_offset) \div TicksPerDay

UsageRows(table, email, query_date) ==
  {row \in table : row.email = email /\ row.query_date = query_date}

Max0(n) == IF n > 0 THEN n ELSE 0

\* SELECT query_count ... WHERE email = ? AND query_date = ?; fetchone()
get_queries_remaining(email) ==
  LET rows == UsageRows(query_usage, NormalizeEmail(email), today)
  IN IF rows = {} THEN DailyLimit
     ELSE Max0(DailyLimit - (CHOOSE row \in rows : TRUE).query_count)

\* the conflict branch stores 1 again instead of adding 1
UpsertUsage_Overwrite(table, email, query_date) ==
  (table \ UsageRows(table, email, query_date))
  \cup {[email |-> email, query_date |-> query_date, query_count |-> 1]}

\* INSERT ... VALUES (?, ?, 1) ON CONFLICT (email, query_date)
\*   DO UPDATE SET query_count = query_usage.query_count + 1
UpsertUsage(table, email, query_date) ==
  LET hit == UsageRows(table, email, query_date)
  IN IF hit = {}
     THEN table \cup {[email |-> email, query_date |-> query_date, query_count |-> 1]}
     ELSE (table \ hit) \cup
          {[row EXCEPT !.query_count = row.query_count + 1] : row \in hit}

\* check_quota: (has_quota, queries_remaining) from get_queries_remaining
check_quota(email) ==
  <<get_queries_remaining(email) > 0, get_queries_remaining(email)>>

\* the statement has no query_date in its key: every row of the email is
\* counted up, and a row of today is added when there is none
increment_usage_EveryDay(table, email) ==
  LET e == NormalizeEmail(email)
      bumped == {IF row.email = e
                 THEN [row EXCEPT !.query_count = row.query_count + 1]
                 ELSE row : row \in table}
  IN IF UsageRows(table, e, today) = {}
     THEN bumped \cup {[email |-> e, query_date |-> today, query_count |-> 1]}
     ELSE bumped

increment_usage(table, email) == UpsertUsage(table, NormalizeEmail(email), today)

(***************************************************************************)
(* dependencies.py: require_auth, AcademicUserInfo, get_academic_user.     *)
(***************************************************************************)
Unlimited == 999999

\* TRUE when the dependency returns, FALSE when it raises 401
require_auth(token) ==
  IF ~settings.auth_enabled THEN TRUE
  ELSE IF token.type = "none" THEN FALSE
  ELSE verify_token(token, "access")

\* what the dependency hands to the endpoint: code 200 with the
\* AcademicUserInfo, or the status of the HTTPException it raised; read tells
\* whether the ledger was queried on the way
Resolved(code, email, tier, queries_remaining, read) ==
  [code |-> code, email |-> email, tier |-> tier,
   queries_remaining |-> queries_remaining, read |-> read]

\* every user is taken for an academic one
is_academic_Always(user) == TRUE

is_academic(user) == user.tier = "academic"

\* the quota test is queries_remaining < 0
get_academic_user_AdmitsAtZero(token) ==
  IF ~settings.auth_enabled /\ ~settings.academic_tier_enabled
  THEN Resolved(200, <<"anonymous">>, "unlimited", Unlimited, FALSE)
  ELSE IF token.type = "none" \/ ~verify_token(token, "access")
          \/ ~decode_token(token)
  THEN Resolved(401, NoEmail, "", 0, FALSE)
  ELSE IF token.tier # "academic"
  THEN Resolved(200, IF token.email = NoEmail THEN <<"admin">> ELSE token.email,
                IF token.tier = "" THEN "admin" ELSE token.tier, Unlimited, FALSE)
  ELSE IF get_queries_remaining(token.email) < 0
  THEN Resolved(429, NoEmail, "", 0, TRUE)
  ELSE Resolved(200, token.email, token.tier,
                get_queries_remaining(token.email), TRUE)

\* a store that cannot be reached counts as a full allowance
get_academic_user_FailsOpen(token) ==
  IF ~settings.auth_enabled /\ ~settings.academic_tier_enabled
  THEN Resolved(200, <<"anonymous">>, "unlimited", Unlimited, FALSE)
  ELSE IF token.type = "none" \/ ~verify_token(token, "access")
          \/ ~decode_token(token)
  THEN Resolved(401, NoEmail, "", 0, FALSE)
  ELSE IF token.tier # "academic"
  THEN Resolved(200, IF token.email = NoEmail THEN <<"admin">> ELSE token.email,
                IF token.tier = "" THEN "admin" ELSE token.tier, Unlimited, FALSE)
  ELSE IF ~store_up
  THEN Resolved(200, token.email, token.tier, DailyLimit, FALSE)
  ELSE IF get_queries_remaining(token.email) <= 0
  THEN Resolved(429, NoEmail, "", 0, TRUE)
  ELSE Resolved(200, token.email, token.tier,
                get_queries_remaining(token.email), TRUE)

\* get_queries_remaining opens a connection to the store; when that raises,
\* the exception leaves the dependency and the request is answered with 500
get_academic_user(token) ==
  IF ~settings.auth_enabled /\ ~settings.academic_tier_enabled
  THEN Resolved(200, <<"anonymous">>, "unlimited", Unlimited, FALSE)
  ELSE IF token.type = "none" THEN Resolved(401, NoEmail, "", 0, FALSE)
  ELSE IF ~verify_token(token, "access") THEN Resolved(401, NoEmail, "", 0, FALSE)
  ELSE IF ~decode_token(token) THEN Resolved(401, NoEmail, "", 0, FALSE)
  ELSE LET email == token.email
           tier == IF token.tier = "" THEN "admin" ELSE token.tier
       IN IF tier # "academic"
          THEN Resolved(200, IF email = NoEmail THEN <<"admin">> ELSE email,
                        tier, Unlimited, FALSE)
          ELSE IF ~store_up THEN Resolved(500, NoEmail, "", 0, FALSE)
          ELSE LET queries_remaining == get_queries_remaining(email)
               IN IF queries_remaining <= 0
                  THEN Resolved(429, NoEmail, "", 0, TRUE)
                  ELSE Resolved(200, email, tier, queries_remaining, TRUE)

\* increment_academic_usage(email): the table after the call
increment_academic_usage(table, email) == increment_usage(table, email)

(***************************************************************************)
(* Stream events and the per-request state.                                *)
(***************************************************************************)
RealTypes == {"text", "tool_call", "tool_result"}

Event(type, n) == [type |-> type, n |-> n]

\* queue.put(None)
Sentinel == Event("None", 0)

NoSession == ""
SessionIds == {"s1"}
\* a second session, for the specifications about the session store
OtherSession == "s2"

IdleReq ==
  [pc |-> "idle", endpoint |-> "none", token |-> NoToken,
   session_id |-> NoSession, question |-> 0, status |-> 0,
   email |-> NoEmail, tier |-> "", queries_remaining |-> 0,
   \* history: the credential as it stood on arrival, and what the request
   \* has touched so far
   credential |-> "none", quota_seen |-> -1, ledger_read |-> FALSE, ledger_written |-> 0,
   turns_appended |-> 0, upstream_calls |-> 0, upstream |-> "none",
   \* history: the steps taken for the request, in the order they were taken
   trace |-> <<>>,
   \* history: where the store failed the request: "none", "check" (the quota
   \* check of the dependency) or "increment" (the increment after the answer)
   storage_error |-> "none"]

\* the trace with the steps taken now added, those whose condition holds
Stepped(trace, steps) ==
  trace \o SelectSeq([i \in 1..Len(steps) |-> IF steps[i][2] THEN steps[i][1] ELSE ""],
                     LAMBDA step : step # "")

IdleRelay ==
  [producer |-> "none", queue |-> <<>>, finished |-> FALSE,
   expired |-> FALSE, idle |-> FALSE, heartbeats |-> 0, full_response |-> 0,
   produced |-> <<>>, yielded |-> <<>>, chunks |-> <<>>, out |-> <<>>,
   \* history: every item the producer task put on the queue, in order
   enqueued |-> <<>>]

InFlight(r) == req[r].pc \in {"stream_pending", "streaming", "querying"}

Turn(question, response) == [question |-> question, response |-> response]

\* the list of the session is replaced by one that holds the turn only
SessionAppend_Overwrite(store, session_id, turn) ==
  IF session_id \in DOMAIN store
  THEN [store EXCEPT ![session_id] = <<turn>>]
  ELSE store @@ (session_id :> <<turn>>)

\* self._sessions[session_id].append(...), creating the list when missing
SessionAppend(store, session_id, turn) ==
  IF session_id \in DOMAIN store
  THEN [store EXCEPT ![session_id] = Append(@, turn)]
  ELSE store @@ (session_id :> <<turn>>)

AllOn ==
  [auth_enabled |-> TRUE, academic_tier_enabled |-> TRUE,
   has_anthropic_key |-> TRUE]

ScopeSlots == IF scope \in {"ledger", "append"} THEN Slots ELSE {1}

ScopeRequests ==
  IF scope \in {"relay", "cancel", "session", "storage"} THEN 1
  ELSE IF scope = "context" THEN MaxStored + 1
  ELSE MaxRequests

Days == 0..((MaxNow + MaxUtcOffset) \div TicksPerDay)

Keys == Identities \X Days

\* one more increment call / completed request of an academic user today
Noted(log, field, rq, happened) ==
  IF happened /\ is_academic(rq)
  THEN [log EXCEPT ![field][<<NormalizeEmail(rq.email), today>>] = @ + 1]
  ELSE log

Init ==
  /\ scope \in Scopes
  /\ settings \in IF scope = "gate"
                  THEN [auth_enabled : BOOLEAN, academic_tier_enabled : BOOLEAN,
                        has_anthropic_key : BOOLEAN]
                  ELSE {AllOn}
  /\ now = 0
  /\ agent = "None"
  /\ query_usage = {}
  /\ sessions = <<>>
  /\ started = 0
  /\ req = [r \in Slots |-> IdleReq]
  /\ relay = [r \in Slots |-> IdleRelay]
  /\ audit = [calls |-> [k \in Keys |-> 0], completions |-> [k \in Keys |-> 0]]
  /\ auth_jwt_secret = "secret"
  /\ utc_offset = 0
  /\ cookies = NoCookies
  /\ issued = {}
  /\ last = NoOp
  /\ store_up = TRUE
  /\ academic_users = {}
  /\ session_op = NoSessionOp

\* The credentials a client can present at instant `now`.  login issues
\* credentials without email and tier when auth is enabled, register_academic
\* issues academic ones when the academic tier is enabled; those are presented
\* fresh.  In the "gate" scope a client also presents no credential, a forged
\* one (bad signature), an expired one and a refresh credential.
Presentable ==
  (IF settings.auth_enabled
   THEN {Token("access", now + AccessTTL, NoEmail, "", TRUE)} ELSE {})
  \cup (IF settings.academic_tier_enabled
        THEN {Token("access", now + AccessTTL, id, "academic", TRUE) :
                id \in Identities}
        ELSE {})
  \cup (IF scope = "gate"
        THEN {NoToken, Token("access", now + AccessTTL, IdA, "academic", FALSE)}
        ELSE {})
  \cup (IF scope = "gate" /\ settings.academic_tier_enabled
        THEN {Token("access", now, IdA, "academic", TRUE),
              Token("refresh", now + RefreshTTL, IdA, "academic", TRUE)}
        ELSE {})

AdvanceClock ==
  /\ scope \in {"gate", "period", "session"}
  /\ now < MaxNow
  /\ now' = now + 1
  /\ UNCHANGED <<authstate, storestate, scope, settings, agent, query_usage, sessions, started, req, relay, audit>>

(***************************************************************************)
(* chat.py: a request arrives at POST /chat/query or POST /chat/stream.    *)
(* The dependencies run in order (require_auth of the router, then         *)
(* get_academic_user), then the endpoint body up to its first suspension.  *)
(***************************************************************************)
\* the status the dependencies and the key check decide, 200 to go on
Admission(token) ==
  IF ~require_auth(token) THEN Resolved(401, NoEmail, "", 0, FALSE)
  ELSE LET user == get_academic_user(token)
       IN IF user.code # 200 THEN user
          ELSE IF ~settings.has_anthropic_key
               THEN [user EXCEPT !.code = 503]
               ELSE user

\* what the presented credential is at the instant of arrival
CredentialKind(token) ==
  IF token.type = "none" THEN "missing"
  ELSE IF ~token.sig THEN "bad_signature"
  ELSE IF token.exp <= now THEN "expired"
  ELSE IF token.type # "access" THEN "wrong_type"
  ELSE "valid"

\* the allowance of the identity a valid quota-bound credential names
QuotaSeen(token) ==
  IF token.tier = "academic" /\ verify_token(token, "access")
  THEN get_queries_remaining(token.email) ELSE -1

\* the dependency has to ask the ledger for the allowance of the credential
QuotaConsulted(token) ==
  /\ settings.auth_enabled \/ settings.academic_tier_enabled
  /\ token.tier = "academic"
  /\ verify_token(token, "access")

Accepted(r, endpoint, token, session_id, adm) ==
  [IdleReq EXCEPT !.endpoint = endpoint, !.token = token,
                  !.session_id = session_id, !.question = started + 1,
                  !.status = adm.code, !.email = adm.email, !.tier = adm.tier,
                  !.queries_remaining = adm.queries_remaining,
                  !.credential = CredentialKind(token),
                  !.quota_seen = QuotaSeen(token), !.ledger_read = adm.read,
                  !.storage_error =
                    IF QuotaConsulted(token) /\ ~store_up THEN "check" ELSE "none",
                  !.trace = Stepped(<<>>, <<<<"authenticate", TRUE>>,
                                            <<"check_quota", adm.read>>>>)]

\* chat.query after agent_service.query returned: the usage is incremented
\* for an academic user and the response is sent; when the increment raises,
\* except Exception turns it into HTTPException(500)
QueryReturns(r, rq, table) ==
  LET written == is_academic(rq) /\ store_up
      raised == is_academic(rq) /\ ~store_up
  IN /\ query_usage' =
          IF written THEN increment_academic_usage(table, rq.email) ELSE table
     /\ audit' = Noted(Noted(audit, "calls", rq, written),
                       "completions", rq, rq.upstream = "ok")
     /\ req' = [req EXCEPT ![r] =
          [rq EXCEPT !.pc = "done",
                     !.status = IF raised THEN 500 ELSE @,
                     !.storage_error = IF raised THEN "increment" ELSE @,
                     !.ledger_written = IF written THEN @ + 1 ELSE @,
                     !.trace = Stepped(@, <<<<"increment_quota", is_academic(rq)>>>>)]]

HandleRequest(r, endpoint, token, session_id, boot) ==
  /\ r \in ScopeSlots
  /\ req[r].pc \in {"idle", "done"}
  /\ started < ScopeRequests
  /\ started' = started + 1
  /\ LET adm == Admission(token)
         rq == Accepted(r, endpoint, token, session_id, adm)
     IN IF adm.code # 200
        THEN \* HTTPException: 401, 429 or 503
             /\ req' = [req EXCEPT ![r] = [rq EXCEPT !.pc = "done"]]
             /\ relay' = [relay EXCEPT ![r] = IdleRelay]
             /\ UNCHANGED <<agent, query_usage, sessions, audit>>
        ELSE IF endpoint = "stream"
        THEN \* StreamingResponse(generate()) is returned
             /\ req' = [req EXCEPT ![r] = [rq EXCEPT !.pc = "stream_pending"]]
             /\ relay' = [relay EXCEPT ![r] = IdleRelay]
             /\ UNCHANGED <<agent, query_usage, sessions, audit>>
        ELSE IF agent = "None" /\ ~boot
        THEN \* agent_service.query: _get_agent raises, the except returns
             \* an error QueryResponse
             /\ QueryReturns(r, [rq EXCEPT !.upstream = "failed"], query_usage)
             /\ relay' = [relay EXCEPT ![r] = IdleRelay]
             /\ UNCHANGED <<agent, sessions>>
        ELSE \* agent_service.query: agent.stream(messages) is entered
             /\ agent' = "agent"
             /\ req' = [req EXCEPT ![r] =
                  [rq EXCEPT !.pc = "querying", !.upstream_calls = 1,
                             !.upstream = "running"]]
             /\ relay' = [relay EXCEPT ![r] = IdleRelay]
             /\ UNCHANGED <<query_usage, sessions, audit>>
  /\ UNCHANGED <<authstate, storestate, scope, settings, now>>

(***************************************************************************)
(* The Upstream Responder (agent.stream): content/tool events, then either *)
(* a finish event and the end of the sequence, or a fault.                 *)
(***************************************************************************)
HasFinish(produced) ==
  produced # <<>> /\ produced[Len(produced)].type = "finish"

\* the event types the upstream may yield next
MayYield(r) ==
  IF HasFinish(relay[r].produced) THEN {}
  ELSE {"finish"} \cup
       (IF scope \in {"relay", "cancel", "storage", "append"}
           /\ Len(relay[r].produced) < MaxEvents
        THEN RealTypes ELSE {})

NextEvent(r, type) == Event(type, Len(relay[r].produced) + 1)

(***************************************************************************)
(* agent_service.py: AgentService.query, run by POST /chat/query.          *)
(***************************************************************************)
\* async for event in agent.stream(messages): one event
QueryEvent(r, type) ==
  /\ req[r].pc = "querying"
  /\ type \in MayYield(r)
  /\ relay' = [relay EXCEPT ![r] =
       [@ EXCEPT !.produced = Append(@, NextEvent(r, type)),
                 !.full_response =
                   IF type = "text" THEN Len(relay[r].produced) + 1 ELSE @]]
  /\ UNCHANGED <<authstate, storestate, scope, settings, now, agent, query_usage, sessions, started, req,
                 audit>>

\* the sequence ends: the turn is stored, the response returned
QueryEnd(r) ==
  /\ req[r].pc = "querying"
  /\ HasFinish(relay[r].produced)
  /\ LET stored == req[r].session_id # NoSession
     IN /\ sessions' =
             IF stored
             THEN SessionAppend(sessions, req[r].session_id,
                                Turn(req[r].question, relay[r].full_response))
             ELSE sessions
        /\ QueryReturns(r, [req[r] EXCEPT !.upstream = "ok",
                                          !.turns_appended =
                                            IF stored THEN @ + 1 ELSE @,
                                          !.trace =
                                            Stepped(@, <<<<"append_session", stored>>>>)],
                        query_usage)
  /\ UNCHANGED <<authstate, storestate, scope, settings, now, agent, started, relay>>

\* agent.stream raises: except Exception returns an error QueryResponse
QueryFault(r) ==
  /\ req[r].pc = "querying"
  /\ ~HasFinish(relay[r].produced)
  /\ QueryReturns(r, [req[r] EXCEPT !.upstream = "failed"], query_usage)
  /\ UNCHANGED <<authstate, storestate, scope, settings, now, agent, sessions, started, relay>>

(***************************************************************************)
(* agent_service.py: AgentService.stream_query and stream_with_heartbeat;  *)
(* chat.py: stream_query.generate, which writes the SSE lines.             *)
(***************************************************************************)
Chunk(type, n) == [type |-> type, n |-> n]

Line(type, n) == [type |-> type, n |-> n]

Done == Line("[DONE]", 0)

\* AgentService.stream_query: the StreamChunk yielded for an event the relay
\* hands over (none for an event type it has no branch for)
ChunkOf(ev) ==
  IF ev.type = "text" THEN <<Chunk("content", ev.n)>>
  ELSE IF ev.type = "tool_call" THEN <<Chunk("tool_call", ev.n)>>
  ELSE IF ev.type = "tool_result" THEN <<Chunk("tool_result", ev.n)>>
  ELSE IF ev.type = "heartbeat" THEN <<Chunk("heartbeat", 0)>>
  ELSE IF ev.type = "finish" THEN <<Chunk("complete", 0)>>
  ELSE <<>>

\* generate: the SSE lines written for a chunk
LinesOf(chunks) ==
  IF chunks = <<>> THEN <<>>
  ELSE IF chunks[1].type = "error" THEN <<Line("error", 0)>>
  ELSE IF chunks[1].type = "content" THEN <<Line("content", chunks[1].n)>>
  ELSE IF chunks[1].type = "complete" THEN <<Line("complete", 0)>>
  ELSE <<>>

\* generate starts: the start line, then AgentService.stream_query up to the
\* first wait of the relay's consumer loop
StartGenerate(r, boot) ==
  /\ req[r].pc = "stream_pending"
  /\ IF agent = "None" /\ ~boot
     THEN \* _get_agent raises: except Exception yields an error chunk,
          \* generate writes it, breaks and writes [DONE]
          /\ relay' = [relay EXCEPT ![r] =
               [@ EXCEPT !.chunks = <<Chunk("error", 0)>>,
                         !.out = <<Line("start", 0)>>
                                 \o LinesOf(<<Chunk("error", 0)>>) \o <<Done>>]]
          /\ req' = [req EXCEPT ![r] = [@ EXCEPT !.pc = "done",
                                                 !.upstream = "failed"]]
          /\ UNCHANGED agent
     ELSE \* queue = asyncio.Queue(); finished = False; create_task(producer())
          /\ agent' = "agent"
          /\ relay' = [relay EXCEPT ![r] =
               [@ EXCEPT !.producer = "created", !.out = <<Line("start", 0)>>]]
          /\ req' = [req EXCEPT ![r] =
               [@ EXCEPT !.pc = "streaming",
                         !.trace = Stepped(@, <<<<"start_relay", TRUE>>>>)]]
  /\ UNCHANGED <<authstate, storestate, scope, settings, now, query_usage, sessions, started, audit>>

\* The timer of wait_for(queue.get(), timeout) fires after the consumer has
\* waited heartbeat_interval on an empty queue.  At most one step of the
\* producer task can run between the timer firing and the consumer resuming
\* with TimeoutError (the upstream awaits its source between two events).
ProducerRuns(r) ==
  /\ req[r].pc \in {"streaming", "abandoned", "cancelled"}
  /\ relay[r].producer \in {"created", "running"}
  /\ ~(relay[r].expired /\ relay[r].queue # <<>>)

\* the event is put at the head of the queue
ProducerPut_Front(r, type) ==
  /\ ProducerRuns(r)
  /\ type \in MayYield(r)
  /\ relay' = [relay EXCEPT ![r] =
       [@ EXCEPT !.producer = "running",
                 !.produced = Append(@, NextEvent(r, type)),
                 !.queue = <<NextEvent(r, type)>> \o @,
                 !.enqueued = Append(@, NextEvent(r, type))]]
  /\ req' = [req EXCEPT ![r] =
       [@ EXCEPT !.upstream_calls = 1,
                 !.upstream = IF type = "finish" THEN "ok" ELSE "running"]]
  /\ UNCHANGED <<authstate, storestate, scope, settings, now, agent, query_usage, sessions, started, audit>>

\* producer: async for event in agent.stream(messages): await queue.put(event)
ProducerPut(r, type) ==
  /\ ProducerRuns(r)
  /\ type \in MayYield(r)
  /\ relay' = [relay EXCEPT ![r] =
       [@ EXCEPT !.producer = "running",
                 !.produced = Append(@, NextEvent(r, type)),
                 !.queue = Append(@, NextEvent(r, type)),
                 !.enqueued = Append(@, NextEvent(r, type))]]
  /\ req' = [req EXCEPT ![r] =
       [@ EXCEPT !.upstream_calls = 1,
                 !.upstream = IF type = "finish" THEN "ok" ELSE "running"]]
  /\ UNCHANGED <<authstate, storestate, scope, settings, now, agent, query_usage, sessions, started, audit>>

\* the error event is put after the sentinel
ProducerFault_ErrorLast(r) ==
  /\ ProducerRuns(r)
  /\ ~HasFinish(relay[r].produced)
  /\ relay' = [relay EXCEPT ![r] =
       [@ EXCEPT !.producer = "done", !.finished = TRUE,
                 !.queue = @ \o <<Sentinel, Event("error", 0)>>,
                 !.enqueued = @ \o <<Sentinel, Event("error", 0)>>]]
  /\ req' = [req EXCEPT ![r] =
       [@ EXCEPT !.upstream_calls = 1, !.upstream = "failed"]]
  /\ UNCHANGED <<authstate, storestate, scope, settings, now, agent, query_usage, sessions, started, audit>>

\* producer: agent.stream raises; except puts an error event, finally sets
\* finished and puts None
ProducerFault(r) ==
  /\ ProducerRuns(r)
  /\ ~HasFinish(relay[r].produced)
  /\ relay' = [relay EXCEPT ![r] =
       [@ EXCEPT !.producer = "done", !.finished = TRUE,
                 !.queue = @ \o <<Event("error", 0), Sentinel>>,
                 !.enqueued = @ \o <<Event("error", 0), Sentinel>>]]
  /\ req' = [req EXCEPT ![r] =
       [@ EXCEPT !.upstream_calls = 1, !.upstream = "failed"]]
  /\ UNCHANGED <<authstate, storestate, scope, settings, now, agent, query_usage, sessions, started, audit>>

\* the producer returns without its finally
ProducerEnd_NoSentinel(r) ==
  /\ ProducerRuns(r)
  /\ HasFinish(relay[r].produced)
  /\ relay' = [relay EXCEPT ![r] = [@ EXCEPT !.producer = "done"]]
  /\ UNCHANGED <<authstate, storestate, scope, settings, now, agent, query_usage, sessions, started, req,
                 audit>>

\* producer: the sequence ends; finally sets finished and puts None
ProducerEnd(r) ==
  /\ ProducerRuns(r)
  /\ HasFinish(relay[r].produced)
  /\ relay' = [relay EXCEPT ![r] =
       [@ EXCEPT !.producer = "done", !.finished = TRUE,
                 !.queue = Append(@, Sentinel),
                 !.enqueued = Append(@, Sentinel)]]
  /\ UNCHANGED <<authstate, storestate, scope, settings, now, agent, query_usage, sessions, started, req,
                 audit>>

\* heartbeat_interval elapses while the consumer waits on the empty queue
TimerExpire(r) ==
  /\ req[r].pc = "streaming"
  /\ relay[r].queue = <<>>
  /\ ~relay[r].expired
  /\ scope \in {"relay", "cancel", "storage"}
  /\ relay[r].heartbeats < MaxHeartbeats
  /\ relay' = [relay EXCEPT ![r] = [@ EXCEPT !.expired = TRUE, !.idle = TRUE]]
  /\ UNCHANGED <<authstate, storestate, scope, settings, now, agent, query_usage, sessions, started, req,
                 audit>>

\* the finally leaves the producer task alone
RelayFinally_NoCancel(rl) == rl

\* finally: producer_task.cancel(); await producer_task.  The producer task
\* was scheduled by create_task before the consumer first waited, and the
\* event loop runs what is ready in the order it was scheduled: by the time
\* the finally runs the task has taken its first step and either is done or
\* is waiting for the upstream.  There it gets CancelledError, which except
\* Exception does not catch, and its finally sets finished and puts None.
RelayFinally(rl) ==
  IF rl.producer \in {"created", "running"}
  THEN [rl EXCEPT !.producer = "cancelled", !.finished = TRUE,
                  !.queue = Append(@, Sentinel),
                  !.enqueued = Append(@, Sentinel)]
  ELSE rl

\* generate: except Exception writes an error line, then [DONE]
ExceptLines == <<Line("error", 0), Done>>

\* the consumer loop yields ev; stream_query maps it to a chunk (storing the
\* turn on finish); generate writes the line (metering on complete).  When
\* the increment raises, generate writes the lines of its except clause and
\* ends, and the relay it leaves suspended at its yield is closed.
Deliver(r, ev, rl) ==
  LET rq == req[r]
      chunk == ChunkOf(ev)
      stored == ev.type = "finish" /\ rq.session_id # NoSession
                /\ rl.full_response # 0
      metered == chunk # <<>> /\ chunk[1].type = "complete" /\ is_academic(rq)
      written == metered /\ store_up
      raised == metered /\ ~store_up
      handed == [rl EXCEPT !.yielded = Append(@, ev),
                           !.chunks = @ \o chunk,
                           !.idle = IF ev.type = "heartbeat" THEN @ ELSE FALSE,
                           !.full_response = IF ev.type = "text" THEN ev.n ELSE @]
  IN /\ sessions' =
          IF stored
          THEN SessionAppend(sessions, rq.session_id,
                             Turn(rq.question, rl.full_response))
          ELSE sessions
     /\ query_usage' =
          IF written THEN increment_academic_usage(query_usage, rq.email)
          ELSE query_usage
     /\ audit' = Noted(Noted(audit, "calls", rq, written),
                       "completions", rq, ev.type = "finish")
     /\ relay' = [relay EXCEPT ![r] =
          IF raised
          THEN RelayFinally([handed EXCEPT !.out = @ \o ExceptLines])
          ELSE [handed EXCEPT !.out = @ \o LinesOf(chunk)]]
     /\ req' = [req EXCEPT ![r] =
          [rq EXCEPT !.pc = IF raised THEN "done" ELSE @,
                     !.storage_error = IF raised THEN "increment" ELSE @,
                     !.ledger_written = IF written THEN @ + 1 ELSE @,
                     !.turns_appended = IF stored THEN @ + 1 ELSE @,
                     !.trace =
                       Stepped(@, <<<<"forward_events", rl.yielded = <<>>>>,
                                    <<"append_session", stored>>,
                                    <<"increment_quota", metered>>>>)]]

\* generate ends without the [DONE] line
EndStream_NoDone(r, rl) ==
  /\ relay' = [relay EXCEPT ![r] = rl]
  /\ req' = [req EXCEPT ![r] = [@ EXCEPT !.pc = "done"]]
  /\ UNCHANGED <<query_usage, sessions, audit>>

\* the consumer loop breaks; finally cancels and awaits the producer task;
\* stream_query and the loop of generate end; generate writes [DONE]
EndStream(r, rl) ==
  /\ relay' = [relay EXCEPT ![r] = [rl EXCEPT !.out = Append(@, Done)]]
  /\ req' = [req EXCEPT ![r] = [@ EXCEPT !.pc = "done"]]
  /\ UNCHANGED <<query_usage, sessions, audit>>

\* event = await wait_for(queue.get(), ...) returns an item
ConsumerGet(r) ==
  /\ req[r].pc = "streaming"
  /\ relay[r].queue # <<>>
  /\ ~relay[r].expired
  /\ LET ev == Head(relay[r].queue)
         rl == [relay[r] EXCEPT !.queue = Tail(@)]
     IN IF ev = Sentinel THEN EndStream(r, rl) ELSE Deliver(r, ev, rl)
  /\ UNCHANGED <<authstate, storestate, scope, settings, now, agent, started>>

\* the finished flag is not looked at
ConsumerTimeout_AlwaysBeats(r) ==
  /\ req[r].pc = "streaming"
  /\ relay[r].expired
  /\ Deliver(r, Event("heartbeat", 0),
             [relay[r] EXCEPT !.expired = FALSE, !.heartbeats = @ + 1])
  /\ UNCHANGED <<authstate, storestate, scope, settings, now, agent, started>>

\* except asyncio.TimeoutError: break when finished, else yield a heartbeat
ConsumerTimeout(r) ==
  /\ req[r].pc = "streaming"
  /\ relay[r].expired
  /\ LET rl == [relay[r] EXCEPT !.expired = FALSE]
     IN IF relay[r].finished
        THEN EndStream(r, rl)
        ELSE Deliver(r, Event("heartbeat", 0),
                     [rl EXCEPT !.heartbeats = @ + 1])
  /\ UNCHANGED <<authstate, storestate, scope, settings, now, agent, started>>

(***************************************************************************)
(* auth.py: the endpoints under /auth.  The client sends the cookies of    *)
(* its jar, or whatever it chooses to put in their place; the cookies a    *)
(* response sets or deletes replace the ones in the jar.                   *)
(***************************************************************************)
\* settings.auth_access_token_expire / settings.auth_refresh_token_expire
TokenExpire(token_type) == IF token_type = "access" THEN AccessTTL ELSE RefreshTTL

\* the claims carry exp = now + expires_delta and are signed with the secret
create_token(token_type, expires_delta, email, tier) ==
  Token(token_type, now + expires_delta, email, tier, TRUE)

set_auth_cookies(access_token, refresh_token) ==
  [access_token |-> access_token, refresh_token |-> refresh_token]

clear_auth_cookies == NoCookies

\* the record kept of create_token's calls
Issue(tokens) == issued \cup {[token |-> t, iat |-> now] : t \in tokens}

\* what a credential is, at this instant, for an operation that expects
\* token_type
KindAs(token, token_type) ==
  IF token.type = "none" THEN "missing"
  ELSE IF token.type = "malformed" THEN "malformed"
  ELSE IF ~token.sig THEN "bad_signature"
  ELSE IF token.exp <= now THEN "expired"
  ELSE IF token.type # token_type THEN "wrong_type"
  ELSE "valid"

\* the response of an operation, as the history keeps it
Response(op, presented, token_type, authenticated, email, queries_remaining) ==
  [op |-> op, n |-> last.n + 1, authenticated |-> authenticated,
   presented |-> presented, kind |-> KindAs(presented, token_type),
   before |-> cookies, at |-> now, email |-> email,
   queries_remaining |-> queries_remaining]

\* the credentials a client can put in a cookie: those of its jar, any
\* credential the server ever issued, none, a string that is no JWT, and a
\* credential signed with another key
Probes ==
  {cookies.access_token, cookies.refresh_token, NoToken, Malformed,
   Token("access", now + AccessTTL, NoEmail, "", FALSE)}
  \cup {i.token : i \in issued}

AuthOp == scope = "session" /\ last.n < MaxAuthOps

\* POST /auth/login
login(password_ok) ==
  /\ AuthOp
  /\ IF settings.auth_enabled /\ password_ok
     THEN LET access_token == create_token("access", TokenExpire("access"), NoEmail, "")
              refresh_token == create_token("refresh", TokenExpire("refresh"), NoEmail, "")
          IN /\ cookies' = set_auth_cookies(access_token, refresh_token)
             /\ issued' = Issue({access_token, refresh_token})
             /\ last' = Response("login", NoToken, "access", TRUE, NoEmail, 0)
     ELSE /\ last' = Response("login", NoToken, "access", FALSE, NoEmail, 0)
          /\ UNCHANGED <<cookies, issued>>
  /\ UNCHANGED <<chatstate, storestate, scope, settings, now, auth_jwt_secret, utc_offset>>

\* POST /auth/logout
logout ==
  /\ AuthOp
  /\ cookies' = clear_auth_cookies
  /\ last' = Response("logout", NoToken, "access", FALSE, NoEmail, 0)
  /\ UNCHANGED <<chatstate, storestate, scope, settings, now, auth_jwt_secret, utc_offset, issued>>

\* POST /auth/refresh
refresh(refresh_token) ==
  /\ AuthOp
  /\ IF ~settings.auth_enabled \/ refresh_token.type = "none"
     THEN /\ last' = Response("refresh", refresh_token, "refresh", FALSE, NoEmail, 0)
          /\ UNCHANGED <<cookies, issued>>
     ELSE IF verify_token(refresh_token, "refresh")
     THEN LET new_access_token == create_token("access", TokenExpire("access"), NoEmail, "")
              new_refresh_token == create_token("refresh", TokenExpire("refresh"), NoEmail, "")
          IN /\ cookies' = set_auth_cookies(new_access_token, new_refresh_token)
             /\ issued' = Issue({new_access_token, new_refresh_token})
             /\ last' = Response("refresh", refresh_token, "refresh", TRUE, NoEmail, 0)
     ELSE /\ cookies' = clear_auth_cookies
          /\ last' = Response("refresh", refresh_token, "refresh", FALSE, NoEmail, 0)
          /\ UNCHANGED issued
  /\ UNCHANGED <<chatstate, storestate, scope, settings, now, auth_jwt_secret, utc_offset>>

\* GET /auth/verify
verify(access_token) ==
  /\ AuthOp
  /\ last' = Response("verify", access_token, "access",
                      IF ~settings.auth_enabled THEN TRUE
                      ELSE IF access_token.type = "none" THEN FALSE
                      ELSE verify_token(access_token, "access"),
                      NoEmail, 0)
  /\ UNCHANGED <<chatstate, storestate, scope, settings, now, auth_jwt_secret, utc_offset,
                 cookies, issued>>

\* academic_user_service.py: the rows of an identity in academic_users
UserRows(table, email) == {u \in table : u.email = email}

\* a row is inserted without looking for an existing one
register_email_InsertsAlways(table, email) ==
  table \cup {[email |-> NormalizeEmail(email), created_at |-> now,
               last_access |-> now]}

\* register_email: SELECT the row of the normalised email; UPDATE its
\* last_access when there is one, INSERT a new row otherwise.  The endpoint
\* does not await between the two statements.
register_email(table, email) ==
  LET e == NormalizeEmail(email)
  IN IF UserRows(table, e) # {}
     THEN {IF u.email = e THEN [u EXCEPT !.last_access = now] ELSE u : u \in table}
     ELSE table \cup {[email |-> e, created_at |-> now, last_access |-> now]}

\* POST /auth/register-academic; stored tells whether the store answered
\* register_email and get_queries_remaining or the connection raised
register_academic(email, stored) ==
  /\ AuthOp
  /\ IF settings.academic_tier_enabled /\ stored
     THEN LET user_email == NormalizeEmail(email)
              access_token ==
                create_token("access", TokenExpire("access"), user_email, "academic")
              refresh_token ==
                create_token("refresh", TokenExpire("refresh"), user_email, "academic")
          IN /\ academic_users' = register_email(academic_users, email)
             /\ cookies' = set_auth_cookies(access_token, refresh_token)
             /\ issued' = Issue({access_token, refresh_token})
             /\ last' = Response("register_academic", NoToken, "access", TRUE,
                                 user_email, get_queries_remaining(user_email))
     ELSE /\ last' = Response("register_academic", NoToken, "access", FALSE,
                              NoEmail, 0)
          /\ UNCHANGED <<academic_users, cookies, issued>>
  /\ UNCHANGED <<chatstate, store_up, session_op, scope, settings, now,
                 auth_jwt_secret, utc_offset>>

\* GET /auth/academic-status
get_academic_status(access_token) ==
  /\ AuthOp
  /\ last' =
       IF access_token.type = "none" \/ ~decode_token(access_token)
       THEN Response("get_academic_status", access_token, "access", FALSE, NoEmail, 0)
       ELSE IF access_token.tier # "academic" \/ access_token.email = NoEmail
       THEN Response("get_academic_status", access_token, "access", TRUE,
                     IF access_token.email = NoEmail THEN <<"admin">>
                     ELSE access_token.email, Unlimited)
       ELSE Response("get_academic_status", access_token, "access", TRUE,
                     access_token.email, get_queries_remaining(access_token.email))
  /\ UNCHANGED <<chatstate, storestate, scope, settings, now, auth_jwt_secret, utc_offset,
                 cookies, issued>>

(***************************************************************************)
(* Cancellation of a stream.  The client disconnects and the server        *)
(* cancels the task that iterates generate.  The CancelledError is raised  *)
(* where that task is suspended: inside the relay, at                      *)
(* wait_for(queue.get()), or outside the generators, while a line is being *)
(* sent and the relay is suspended at its yield.  In the first case the    *)
(* finally of the consumer loop runs at once; in the second the generators *)
(* are left suspended until the event loop's async generator finalizer     *)
(* closes them (GeneratorExit at the yield), and the finally runs then.    *)
(***************************************************************************)
\* what became of the upstream run when its task was torn down
Torn(rl, upstream) ==
  IF rl.producer = "cancelled" /\ upstream \in {"none", "running"}
  THEN "stopped" ELSE upstream

Cancel(r, at) ==
  /\ req[r].pc = "streaming"
  /\ IF at = "wait"
     THEN \* CancelledError at wait_for: the finally runs, the relay returns
          /\ relay' = [relay EXCEPT ![r] =
               RelayFinally([@ EXCEPT !.expired = FALSE])]
          /\ req' = [req EXCEPT ![r] =
               [@ EXCEPT !.pc = "cancelled",
                         !.upstream = Torn(relay'[r], @)]]
     ELSE \* suspended at the yield of the last event: nothing runs yet
          /\ relay[r].yielded # <<>>
          /\ relay' = [relay EXCEPT ![r] = [@ EXCEPT !.expired = FALSE]]
          /\ req' = [req EXCEPT ![r] = [@ EXCEPT !.pc = "abandoned"]]
  /\ UNCHANGED <<authstate, storestate, scope, settings, now, agent, query_usage, sessions,
                 started, audit>>

\* the finalizer closes the abandoned generators: GeneratorExit at the yield
\* of the relay, whose finally runs
Finalize(r) ==
  /\ req[r].pc = "abandoned"
  /\ relay' = [relay EXCEPT ![r] = RelayFinally(@)]
  /\ req' = [req EXCEPT ![r] =
       [@ EXCEPT !.pc = "cancelled", !.upstream = Torn(relay'[r], @)]]
  /\ UNCHANGED <<authstate, storestate, scope, settings, now, agent, query_usage, sessions,
                 started, audit>>

(***************************************************************************)
(* The store of the ledger (DuckDB file or MotherDuck) stops or resumes    *)
(* answering: duckdb.connect in _get_connection raises while it is down.   *)
(***************************************************************************)
StoreFlips ==
  /\ scope = "storage"
  /\ store_up' = ~store_up
  /\ UNCHANGED <<authstate, chatstate, academic_users, session_op, scope, settings, now>>

(***************************************************************************)
(* agent_service.py: the session store.  The conversation context of a     *)
(* new turn, clear_session (DELETE /chat/history) and get_session_history. *)
(***************************************************************************)
\* the first limit turns
Recent_Oldest(turns, limit) ==
  IF Len(turns) <= limit THEN turns ELSE SubSeq(turns, 1, limit)

\* turns[-limit:]
Recent(turns, limit) ==
  IF Len(turns) <= limit THEN turns
  ELSE SubSeq(turns, Len(turns) - limit + 1, Len(turns))

\* for item in ...: messages.append(user question); messages.append(assistant
\* response)
RECURSIVE TurnMessages(_)
TurnMessages(turns) ==
  IF turns = <<>> THEN <<>>
  ELSE <<Message("user", Head(turns).question),
         Message("assistant", Head(turns).response)>> \o TurnMessages(Tail(turns))

\* the messages handed to agent.stream for a question on a session
BuildMessages(store, session_id, question) ==
  (IF session_id # NoSession /\ session_id \in DOMAIN store
   THEN TurnMessages(Recent(store[session_id], HistoryLimit))
   ELSE <<>>) \o <<Message("user", question)>>

\* the first turn of the session is kept
SessionRemove_KeepsFirst(store, session_id) ==
  IF session_id \in DOMAIN store
  THEN [store EXCEPT ![session_id] = SubSeq(@, 1, 1)]
  ELSE store

\* if session_id in self._sessions: del self._sessions[session_id]
SessionRemove(store, session_id) ==
  IF session_id \notin DOMAIN store THEN store
  ELSE IF DOMAIN store = {session_id} THEN <<>>
  ELSE [k \in DOMAIN store \ {session_id} |-> store[k]]

\* self._sessions.get(session_id, [])
SessionHistory(store, session_id) ==
  IF session_id \in DOMAIN store THEN store[session_id] ELSE <<>>

SessionOp == scope = "context" /\ session_op.n < MaxSessionOps

\* the context AgentService.query / stream_query builds for the next question
BuildContext(session_id) ==
  /\ SessionOp
  /\ session_op' =
       [NoSessionOp EXCEPT !.op = "context", !.n = session_op.n + 1,
                           !.session_id = session_id, !.question = started + 1,
                           !.messages =
                             BuildMessages(sessions, session_id, started + 1)]
  /\ UNCHANGED <<authstate, chatstate, store_up, academic_users, scope, settings, now>>

\* DELETE /chat/history: clear_session deletes the session, calls
\* clear_history() on the one agent of the service (when there is one), which
\* takes no session id, and returns True
clear_session(session_id) ==
  /\ SessionOp
  /\ sessions' = SessionRemove(sessions, session_id)
  /\ session_op' =
       [NoSessionOp EXCEPT !.op = "clear", !.n = session_op.n + 1,
                           !.session_id = session_id, !.returned = TRUE,
                           !.agent_cleared = (agent = "agent")]
  /\ UNCHANGED <<authstate, store_up, academic_users, scope, settings, now, agent,
                 query_usage, started, req, relay, audit>>

get_session_history(session_id) ==
  /\ SessionOp
  /\ session_op' =
       [NoSessionOp EXCEPT !.op = "history", !.n = session_op.n + 1,
                           !.session_id = session_id,
                           !.history = SessionHistory(sessions, session_id)]
  /\ UNCHANGED <<authstate, chatstate, store_up, academic_users, scope, settings, now>>

(***************************************************************************)
(* The system.                                                             *)
(***************************************************************************)
Next ==
  \/ AdvanceClock
  \/ \E r \in Slots, endpoint \in {"query", "stream"}, token \in Presentable,
        session_id \in SessionIds \cup {NoSession}, boot \in BOOLEAN :
       HandleRequest(r, endpoint, token, session_id, boot)
  \/ \E r \in Slots, type \in RealTypes \cup {"finish"} : QueryEvent(r, type)
  \/ \E r \in Slots : QueryEnd(r)
  \/ \E r \in Slots : QueryFault(r)
  \/ \E r \in Slots, boot \in BOOLEAN : StartGenerate(r, boot)
  \/ \E r \in Slots, type \in RealTypes \cup {"finish"} : ProducerPut(r, type)
  \/ \E r \in Slots : ProducerFault(r)
  \/ \E r \in Slots : ProducerEnd(r)
  \/ \E r \in Slots : TimerExpire(r)
  \/ \E r \in Slots : ConsumerGet(r)
  \/ \E r \in Slots : ConsumerTimeout(r)

Spec == Init /\ [][Next]_vars

(***************************************************************************)
(* The streaming endpoint with a client that can disconnect.               *)
(***************************************************************************)
InitCancel ==
  /\ scope = "cancel"
  /\ settings = AllOn
  /\ now = 0
  /\ agent = "None"
  /\ query_usage = {}
  /\ sessions = <<>>
  /\ started = 0
  /\ req = [r \in Slots |-> IdleReq]
  /\ relay = [r \in Slots |-> IdleRelay]
  /\ audit = [calls |-> [k \in Keys |-> 0], completions |-> [k \in Keys |-> 0]]
  /\ auth_jwt_secret = "secret"
  /\ utc_offset = 0
  /\ cookies = NoCookies
  /\ issued = {}
  /\ last = NoOp
  /\ store_up = TRUE
  /\ academic_users = {}
  /\ session_op = NoSessionOp

(***************************************************************************)
(* The /auth endpoints and the credential check of the chat endpoints,     *)
(* with a client that presents any credential and a clock that runs.       *)
(***************************************************************************)
InitSession ==
  /\ scope = "session"
  /\ settings \in [auth_enabled : BOOLEAN, academic_tier_enabled : BOOLEAN,
                    has_anthropic_key : {TRUE}]
  /\ now = 0
  /\ agent = "None"
  /\ query_usage = {}
  /\ sessions = <<>>
  /\ started = 0
  /\ req = [r \in Slots |-> IdleReq]
  /\ relay = [r \in Slots |-> IdleRelay]
  /\ audit = [calls |-> [k \in Keys |-> 0], completions |-> [k \in Keys |-> 0]]
  /\ auth_jwt_secret \in {"", "secret"}
  /\ utc_offset = 0
  /\ cookies = NoCookies
  /\ issued = {}
  /\ last = NoOp
  /\ store_up = TRUE
  /\ academic_users = {}
  /\ session_op = NoSessionOp

NextSession ==
  \/ AdvanceClock
  \/ \E password_ok \in BOOLEAN : login(password_ok)
  \/ logout
  \/ \E refresh_token \in Probes : refresh(refresh_token)
  \/ \E access_token \in Probes : verify(access_token)
  \/ \E email \in {IdA, <<"A">>}, stored \in BOOLEAN :
       register_academic(email, stored)
  \/ \E access_token \in Probes : get_academic_status(access_token)
  \/ \E r \in Slots, token \in Probes :
       HandleRequest(r, "stream", token, NoSession, TRUE)

SpecSession == InitSession /\ [][NextSession]_vars

(***************************************************************************)
(* The ledger over a day boundary, on a server whose local time zone is    *)
(* UTC or ahead of it.                                                     *)
(***************************************************************************)
InitPeriod ==
  /\ scope = "period"
  /\ settings = AllOn
  /\ now = 0
  /\ agent = "None"
  /\ query_usage = {}
  /\ sessions = <<>>
  /\ started = 0
  /\ req = [r \in Slots |-> IdleReq]
  /\ relay = [r \in Slots |-> IdleRelay]
  /\ audit = [calls |-> [k \in Keys |-> 0], completions |-> [k \in Keys |-> 0]]
  /\ auth_jwt_secret = "secret"
  /\ utc_offset \in 0..MaxUtcOffset
  /\ cookies = NoCookies
  /\ issued = {}
  /\ last = NoOp
  /\ store_up = TRUE
  /\ academic_users = {}
  /\ session_op = NoSessionOp

NextPeriod ==
  \/ AdvanceClock
  \/ \E r \in Slots, token \in Presentable,
        session_id \in SessionIds \cup {NoSession}, boot \in BOOLEAN :
       HandleRequest(r, "query", token, session_id, boot)
  \/ \E r \in Slots, type \in RealTypes \cup {"finish"} : QueryEvent(r, type)
  \/ \E r \in Slots : QueryEnd(r)
  \/ \E r \in Slots : QueryFault(r)

SpecPeriod == InitPeriod /\ [][NextPeriod]_vars

NextCancel ==
  \/ \E r \in Slots, token \in Presentable,
        session_id \in SessionIds \cup {NoSession}, boot \in BOOLEAN :
       HandleRequest(r, "stream", token, session_id, boot)
  \/ \E r \in Slots, boot \in BOOLEAN : StartGenerate(r, boot)
  \/ \E r \in Slots, type \in RealTypes \cup {"finish"} : ProducerPut(r, type)
  \/ \E r \in Slots : ProducerFault(r)
  \/ \E r \in Slots : ProducerEnd(r)
  \/ \E r \in Slots : TimerExpire(r)
  \/ \E r \in Slots : ConsumerGet(r)
  \/ \E r \in Slots : ConsumerTimeout(r)
  \/ \E r \in Slots, at \in {"wait", "yield"} : Cancel(r, at)
  \/ \E r \in Slots : Finalize(r)

SpecCancel == InitCancel /\ [][NextCancel]_vars

(***************************************************************************)
(* The streaming endpoint under fair scheduling.  The event loop runs      *)
(* every task that is ready, so generate, the consumer loop and the        *)
(* producer task each take a step that stays possible; the upstream yields *)
(* its next event, ends or raises.  Whether the queue stays empty for      *)
(* heartbeat_interval is up to the upstream's timing and is not forced.    *)
(***************************************************************************)
InitRelay ==
  /\ scope = "relay"
  /\ settings = AllOn
  /\ now = 0
  /\ agent = "None"
  /\ query_usage = {}
  /\ sessions = <<>>
  /\ started = 0
  /\ req = [r \in Slots |-> IdleReq]
  /\ relay = [r \in Slots |-> IdleRelay]
  /\ audit = [calls |-> [k \in Keys |-> 0], completions |-> [k \in Keys |-> 0]]
  /\ auth_jwt_secret = "secret"
  /\ utc_offset = 0
  /\ cookies = NoCookies
  /\ issued = {}
  /\ last = NoOp
  /\ store_up = TRUE
  /\ academic_users = {}
  /\ session_op = NoSessionOp

Generates == \E r \in Slots, boot \in BOOLEAN : StartGenerate(r, boot)

Produces ==
  \/ \E r \in Slots, type \in RealTypes \cup {"finish"} : ProducerPut(r, type)
  \/ \E r \in Slots : ProducerFault(r)
  \/ \E r \in Slots : ProducerEnd(r)

Consumes ==
  \/ \E r \in Slots : ConsumerGet(r)
  \/ \E r \in Slots : ConsumerTimeout(r)

NextRelay ==
  \/ \E r \in Slots, token \in Presentable,
        session_id \in SessionIds \cup {NoSession}, boot \in BOOLEAN :
       HandleRequest(r, "stream", token, session_id, boot)
  \/ Generates
  \/ Produces
  \/ \E r \in Slots : TimerExpire(r)
  \/ Consumes

SpecRelay ==
  /\ InitRelay
  /\ [][NextRelay]_vars
  /\ WF_vars(Generates)
  /\ WF_vars(Produces)
  /\ WF_vars(Consumes)

(***************************************************************************)
(* The chat endpoints with a store that can become unreachable.            *)
(***************************************************************************)
InitStorage ==
  /\ scope = "storage"
  /\ settings = AllOn
  /\ now = 0
  /\ agent = "None"
  /\ query_usage = {}
  /\ sessions = <<>>
  /\ started = 0
  /\ req = [r \in Slots |-> IdleReq]
  /\ relay = [r \in Slots |-> IdleRelay]
  /\ audit = [calls |-> [k \in Keys |-> 0], completions |-> [k \in Keys |-> 0]]
  /\ auth_jwt_secret = "secret"
  /\ utc_offset = 0
  /\ cookies = NoCookies
  /\ issued = {}
  /\ last = NoOp
  /\ store_up \in BOOLEAN
  /\ academic_users = {}
  /\ session_op = NoSessionOp

NextStorage ==
  \/ StoreFlips
  \/ \E r \in Slots, endpoint \in {"query", "stream"}, token \in Presentable,
        session_id \in SessionIds \cup {NoSession} :
       HandleRequest(r, endpoint, token, session_id, TRUE)
  \/ \E r \in Slots, type \in RealTypes \cup {"finish"} : QueryEvent(r, type)
  \/ \E r \in Slots : QueryEnd(r)
  \/ \E r \in Slots : QueryFault(r)
  \/ \E r \in Slots : StartGenerate(r, TRUE)
  \/ \E r \in Slots, type \in RealTypes \cup {"finish"} : ProducerPut(r, type)
  \/ \E r \in Slots : ProducerFault(r)
  \/ \E r \in Slots : ProducerEnd(r)
  \/ \E r \in Slots : TimerExpire(r)
  \/ \E r \in Slots : ConsumerGet(r)
  \/ \E r \in Slots : ConsumerTimeout(r)

SpecStorage == InitStorage /\ [][NextStorage]_vars

(***************************************************************************)
(* Two requests in flight together that store their turns.                 *)
(***************************************************************************)
InitAppend ==
  /\ scope = "append"
  /\ settings = AllOn
  /\ now = 0
  /\ agent = "None"
  /\ query_usage = {}
  /\ sessions = <<>>
  /\ started = 0
  /\ req = [r \in Slots |-> IdleReq]
  /\ relay = [r \in Slots |-> IdleRelay]
  /\ audit = [calls |-> [k \in Keys |-> 0], completions |-> [k \in Keys |-> 0]]
  /\ auth_jwt_secret = "secret"
  /\ utc_offset = 0
  /\ cookies = NoCookies
  /\ issued = {}
  /\ last = NoOp
  /\ store_up = TRUE
  /\ academic_users = {}
  /\ session_op = NoSessionOp

NextAppend ==
  \/ \E r \in Slots, endpoint \in {"query", "stream"},
        token \in {t \in Presentable : t.tier = ""},
        session_id \in SessionIds \cup {OtherSession} :
       HandleRequest(r, endpoint, token, session_id, TRUE)
  \/ \E r \in Slots, type \in {"text", "finish"} : QueryEvent(r, type)
  \/ \E r \in Slots : QueryEnd(r)
  \/ \E r \in Slots : StartGenerate(r, TRUE)
  \/ \E r \in Slots, type \in {"text", "finish"} : ProducerPut(r, type)
  \/ \E r \in Slots : ProducerEnd(r)
  \/ \E r \in Slots : ConsumerGet(r)

SpecAppend == InitAppend /\ [][NextAppend]_vars

(***************************************************************************)
(* The session store: sessions that already hold turns, further turns by   *)
(* POST /chat/query, and the context, clearing and reading of a session.   *)
(***************************************************************************)
\* the turns of n answered questions
StoredTurns(n) == [k \in 1..n |-> Turn(k, 1)]

\* MaxStored questions were answered so far, the first n of them on the
\* session

InitContext ==
  /\ scope = "context"
  /\ settings = AllOn
  /\ now = 0
  /\ agent = "None"
  /\ query_usage = {}
  /\ started = MaxStored
  /\ \E n \in 0..MaxStored :
       sessions = IF n = 0 THEN <<>>
                  ELSE [session_id \in SessionIds |-> StoredTurns(n)]
  /\ req = [r \in Slots |-> IdleReq]
  /\ relay = [r \in Slots |-> IdleRelay]
  /\ audit = [calls |-> [k \in Keys |-> 0], completions |-> [k \in Keys |-> 0]]
  /\ auth_jwt_secret = "secret"
  /\ utc_offset = 0
  /\ cookies = NoCookies
  /\ issued = {}
  /\ last = NoOp
  /\ store_up = TRUE
  /\ academic_users = {}
  /\ session_op = NoSessionOp

NextContext ==
  \/ \E r \in Slots, token \in {t \in Presentable : t.tier = ""},
        session_id \in SessionIds \cup {OtherSession, NoSession} :
       HandleRequest(r, "query", token, session_id, TRUE)
  \/ \E r \in Slots, type \in RealTypes \cup {"finish"} : QueryEvent(r, type)
  \/ \E r \in Slots : QueryEnd(r)
  \/ \E session_id \in SessionIds \cup {NoSession} : BuildContext(session_id)
  \/ \E session_id \in SessionIds : clear_session(session_id)
  \/ \E session_id \in SessionIds : get_session_history(session_id)

SpecContext == InitContext /\ [][NextContext]_vars

(***************************************************************************)
(* Properties.                                                             *)
(***************************************************************************)
AuthRequired == settings.auth_enabled \/ settings.academic_tier_enabled

\* the stream of request context r was started and has ended
StreamEnded(r) ==
  req[r].endpoint = "stream" /\ req[r].status = 200 /\ req[r].pc = "done"

IsReal(e) == e.type \in RealTypes

IsRealChunk(c) == c.type \in {"content", "tool_call", "tool_result"}

IsTerminal(l) == l.type \in {"complete", "error"}

IsHeartbeat(e) == e.type = "heartbeat"

IsPrefix(a, b) == Len(a) <= Len(b) /\ a = SubSeq(b, 1, Len(a))

\* C1: a request whose valid academic credential names an identity with
\* remaining allowance 0 at the quota check is answered 429, on either
\* endpoint, and reaches neither the upstream nor the stream.
C1_ExhaustedQuotaIsRejected ==
  \A r \in Slots :
    req[r].quota_seen = 0 =>
      /\ req[r].status = 429 /\ req[r].pc = "done"
      /\ req[r].upstream_calls = 0 /\ req[r].upstream = "none"
      /\ relay[r].produced = <<>> /\ relay[r].out = <<>>

C1_Witness ==
  \E r \in Slots :
    /\ req[r].quota_seen = 0 /\ req[r].status = 429
    /\ req[r].endpoint = "stream"

\* C2: when authentication is required, a request with no credential, an
\* expired one, one with a bad signature or one of the wrong type is answered
\* 401 and has read no counter, written none, appended no turn, made no
\* upstream call and written no stream line.
C2_RejectedTouchesNothing ==
  \A r \in Slots :
    (AuthRequired /\ req[r].credential \in
       {"missing", "expired", "bad_signature", "wrong_type"}) =>
      /\ req[r].status = 401 /\ req[r].pc = "done"
      /\ ~req[r].ledger_read /\ req[r].ledger_written = 0
      /\ req[r].turns_appended = 0
      /\ req[r].upstream_calls = 0 /\ relay[r].produced = <<>>
      /\ relay[r].out = <<>>

C2_Witness ==
  \E r \in Slots :
    /\ AuthRequired /\ req[r].credential = "wrong_type" /\ req[r].status = 401
    /\ query_usage # {}

\* C3: a request increments the usage counter only after its own upstream
\* work completed successfully (streaming and non-streaming endpoint).
C3_MeteredOnlyAfterSuccess ==
  \A r \in Slots : req[r].ledger_written > 0 => req[r].upstream = "ok"

\* C4: remaining(I) is daily_limit minus the number of successful completions
\* of I today, is never negative, and is daily_limit when I has no row today.
C4_RemainingIsLimitMinusCompletions ==
  \A id \in Identities :
    /\ get_queries_remaining(id) = DailyLimit - audit.completions[<<id, today>>]
    /\ get_queries_remaining(id) >= 0
    /\ UsageRows(query_usage, id, today) = {} =>
         get_queries_remaining(id) = DailyLimit

\* C5: under any interleaving of requests of one identity, the requests of
\* that identity that were admitted to upstream work, completed and were
\* metered in one day are never more than daily_limit (each of them added 1
\* to the stored count of that day).
C5_MeteredNeverExceedsLimit ==
  \A k \in Keys : audit.completions[k] <= DailyLimit

\* C6: after any interleaving of increment calls there is exactly one row per
\* (identity, day) that was incremented, none for the others, and its count is
\* the number of increment calls made for it.
C6_IncrementIsAtomicUpsert ==
  /\ \A row \in query_usage : <<row.email, row.query_date>> \in Keys
  /\ \A k \in Keys :
       UsageRows(query_usage, k[1], k[2]) =
         IF audit.calls[k] = 0 THEN {}
         ELSE {[email |-> k[1], query_date |-> k[2],
                query_count |-> audit.calls[k]]}

\* two requests of one identity were in flight together and both incremented
\* a counter that had no row when they were admitted
C6_Witness ==
  /\ req[1].ledger_written = 1 /\ req[2].ledger_written = 1
  /\ req[1].email = req[2].email
  /\ req[1].queries_remaining = DailyLimit
  /\ req[2].queries_remaining = DailyLimit
  /\ \E row \in query_usage : row.query_count = 2

\* C7: every stream that was started and has ended wrote exactly one terminal
\* line (complete or error), and wrote it before [DONE].
C7_ExactlyOneTerminal ==
  \A r \in Slots :
    StreamEnded(r) =>
      /\ Len(SelectSeq(relay[r].out, IsTerminal)) = 1
      /\ relay[r].out[Len(relay[r].out)] = Done

\* C8: when the upstream failed, the stream ends with one error line followed
\* by [DONE], and an error event the relay yielded was forwarded as a chunk.
C8_UpstreamFailureIsDelivered ==
  \A r \in Slots :
    (StreamEnded(r) /\ req[r].upstream = "failed") =>
      LET out == relay[r].out
      IN /\ Len(out) >= 2
         /\ out[Len(out)] = Done
         /\ out[Len(out) - 1].type = "error"
         /\ Len(SelectSeq(relay[r].yielded, LAMBDA e : e.type = "error"))
              <= Len(SelectSeq(relay[r].chunks, LAMBDA c : c.type = "error"))

C10_HeartbeatOnIdleOnly ==
  [][\A r \in Slots :
       LET y == relay[r].yielded
           z == relay'[r].yielded
       IN /\ (req[r].pc = "streaming" /\ Len(z) = Len(y) + 1) =>
               /\ (~IsHeartbeat(z[Len(z)]) /\ relay[r].idle) =>
                    (y # <<>> /\ IsHeartbeat(y[Len(y)]))
               /\ IsHeartbeat(z[Len(z)]) =>
                    (~relay[r].finished /\ relay[r].producer # "done")
          /\ (req[r].pc = "done" /\ req'[r].question = req[r].question) =>
               z = y
    ]_vars

C10_Witness ==
  \E r \in Slots :
    \E i \in 1..Len(relay[r].yielded) :
      /\ i > 1
      /\ IsHeartbeat(relay[r].yielded[i - 1])
      /\ ~IsHeartbeat(relay[r].yielded[i])
      /\ relay[r].finished

\* C11: when a stream is cancelled, nothing is yielded or written for it
\* from the cancellation on, and once the relay has returned its producer task
\* is neither pending nor running and produces nothing more.
C11_CancelledRelayLeavesNoTask ==
  [][\A r \in Slots :
       /\ (req[r].pc \in {"abandoned", "cancelled"}
           \/ req'[r].pc \in {"abandoned", "cancelled"}) =>
            /\ relay'[r].yielded = relay[r].yielded
            /\ relay'[r].chunks = relay[r].chunks
            /\ relay'[r].out = relay[r].out
       /\ req'[r].pc = "cancelled" =>
            relay'[r].producer \in {"done", "cancelled"}
       /\ req[r].pc = "cancelled" =>
            /\ req'[r].pc = "cancelled"
            /\ relay'[r].produced = relay[r].produced
            /\ relay'[r].queue = relay[r].queue
    ]_vars

\* a relay abandoned at a yield while its producer was still running, whose
\* producer went on producing until the relay was closed
C11_Witness ==
  \E r \in Slots :
    /\ req[r].pc = "cancelled"
    /\ relay[r].producer = "cancelled"
    /\ Len(relay[r].produced) > Len(relay[r].yielded)
    /\ relay[r].yielded # <<>>
    /\ req[r].upstream = "stopped"

\* the session as its cookies stand: the access credential verifies, or only
\* the refresh credential does, or neither
SessionState ==
  IF verify_token(cookies.access_token, "access") THEN "Authenticated"
  ELSE IF verify_token(cookies.refresh_token, "refresh") THEN "AccessExpired"
  ELSE "Unauthenticated"

\* this step is an operation on /auth
Answered(op) == last'.n # last.n /\ last'.op = op

\* C12: verify_token rejects every issued credential for the type it was not
\* issued as: an access credential as "refresh", a refresh credential as
\* "access", at every instant.
C12_TypeConfusionImpossible ==
  \A i \in issued :
    /\ i.token.type = "access" => ~verify_token(i.token, "refresh")
    /\ i.token.type = "refresh" => ~verify_token(i.token, "access")

\* an access and a refresh credential that both verify for their own type
C12_Witness ==
  \E i, j \in issued :
    /\ i.token.type = "access" /\ verify_token(i.token, "access")
    /\ j.token.type = "refresh" /\ verify_token(j.token, "refresh")
    /\ i.token.tier = "academic"

\* C13: a refresh credential presented where an access credential is required
\* is rejected by the auth guard and the user lookup of the chat endpoints, by
\* GET /auth/verify and by GET /auth/academic-status, and an access credential
\* presented to POST /auth/refresh is rejected.
C13_TypeMatchesOperation ==
  /\ (last.op = "verify" /\ settings.auth_enabled
      /\ last.presented.type = "refresh") => ~last.authenticated
  /\ (last.op = "get_academic_status" /\ last.presented.type = "refresh") =>
       ~last.authenticated
  /\ (last.op = "refresh" /\ last.presented.type = "access") =>
       ~last.authenticated
  /\ \A r \in Slots :
       (AuthRequired /\ req[r].pc # "idle" /\ req[r].token.type = "refresh") =>
         req[r].status = 401

\* C14: a credential the server issued verifies for its own type exactly at
\* the instants before issued_at + TTL of its type.
C14_ExpiryIsEnforced ==
  auth_jwt_secret # "" =>
    \A i \in issued :
      verify_token(i.token, i.token.type)
        <=> now < i.iat + TokenExpire(i.token.type)

\* the instant an access credential expires, its refresh credential still good
C14_Witness ==
  \E i, j \in issued :
    /\ auth_jwt_secret # ""
    /\ i.token.type = "access" /\ now = i.iat + AccessTTL
    /\ j.token.type = "refresh" /\ j.iat = i.iat /\ now < j.iat + RefreshTTL

\* C15: verify_token returns false for a credential that is missing,
\* malformed, forged, expired or of the other type, and for every credential
\* when no secret is configured; GET /auth/verify, which returns its result,
\* answers (nothing is raised) and changes nothing but the response.
C15_VerifyFailsClosedAndPure ==
  [][/\ \A t \in Probes, token_type \in {"access", "refresh"} :
          (KindAs(t, token_type) # "valid" \/ auth_jwt_secret = "") =>
            ~verify_token(t, token_type)
     /\ Answered("verify") =>
          /\ UNCHANGED <<cookies, issued, query_usage, sessions, req, relay, audit>>
          /\ (settings.auth_enabled
              /\ (last'.kind # "valid" \/ auth_jwt_secret = "")) =>
               ~last'.authenticated
    ]_vars

C15_Witness ==
  /\ last.op = "verify" /\ last.kind = "expired" /\ ~last.authenticated
  /\ settings.auth_enabled /\ auth_jwt_secret # ""
  /\ last.presented = cookies.access_token

\* C16: the two cookies are set together to credentials issued by a
\* successful login, registration or refresh; logout and a failed refresh
\* clear both; a failed login and every other operation leave both as they
\* were.
C16_CookiesChangeTogether ==
  /\ (cookies.access_token = NoToken) <=> (cookies.refresh_token = NoToken)
  /\ (last.op \in {"login", "register_academic", "refresh"} /\ last.authenticated) =>
       /\ cookies.access_token.type = "access"
       /\ cookies.refresh_token.type = "refresh"
       /\ [token |-> cookies.access_token, iat |-> last.at] \in issued
       /\ [token |-> cookies.refresh_token, iat |-> last.at] \in issued
  /\ (last.op = "logout" \/ (last.op = "refresh" /\ ~last.authenticated)) =>
       cookies = NoCookies
  /\ (last.op \in {"none", "verify", "get_academic_status"}
      \/ (last.op \in {"login", "register_academic"} /\ ~last.authenticated)) =>
       cookies = last.before

\* C17: after a successful refresh the access credential the session held
\* before it is not the one it holds now, and is no longer accepted by the
\* auth guard or the user lookup.
C17_RefreshRevokesOldAccess ==
  (last.op = "refresh" /\ last.authenticated
   /\ last.before.access_token # NoToken) =>
    /\ cookies.access_token # last.before.access_token
    /\ ~require_auth(last.before.access_token)
    /\ get_academic_user(last.before.access_token).code # 200

\* C18: a session that sends the cookies it was given becomes Authenticated
\* from Unauthenticated only by a successful login or registration, becomes
\* AccessExpired from Authenticated only as time passes, and from
\* AccessExpired a refresh makes it Authenticated with a new pair when the
\* refresh credential is valid and Unauthenticated when it is not.
C18_LifecycleTransitions ==
  [][LET from == SessionState
         to == SessionState'
         own == last'.presented = cookies.refresh_token
     IN /\ (from = "Unauthenticated" /\ to = "Authenticated"
            /\ ~(Answered("refresh") /\ ~own)) =>
             /\ Answered("login") \/ Answered("register_academic")
             /\ last'.authenticated
        /\ (from = "Authenticated" /\ to = "AccessExpired") => now' # now
        /\ (from = "AccessExpired" /\ Answered("refresh") /\ own) =>
             IF last'.kind = "valid"
             THEN /\ to = "Authenticated" /\ last'.authenticated
                  /\ cookies' # cookies
             ELSE to = "Unauthenticated"
    ]_vars

\* the calendar day in UTC
UtcDay == now \div TicksPerDay

\* C19: when time passes into another UTC day, remaining(I) is daily_limit
\* for every identity I, no reset having been called; when time passes within
\* one UTC day, remaining(I) stays what it was.
C19_QuotaPeriodIsUtcDay ==
  [][now' # now =>
       \A id \in Identities :
         IF UtcDay' # UtcDay
         THEN get_queries_remaining(id)' = DailyLimit
         ELSE get_queries_remaining(id)' = get_queries_remaining(id)
    ]_vars

\* the place of a step in the sequencing contract
StepRank(step) ==
  CASE step = "authenticate" -> 1
    [] step = "check_quota" -> 2
    [] step = "start_relay" -> 3
    [] step = "forward_events" -> 4
    [] step = "increment_quota" -> 5
    [] step = "append_session" -> 6

Took(r, step) == \E i \in 1..Len(req[r].trace) : req[r].trace[i] = step

\* C20: the steps taken for a request are in the order authenticate,
\* check_quota, start_relay, forward_events, increment_quota, append_session;
\* a step after the quota check is taken only for an admitted request, after
\* the quota check when the tier is quota-bound; and on the streaming endpoint
\* events are forwarded only from a started relay, and the increment and the
\* append follow the forwarding of a stream whose upstream completed.
C20_StepsInOrder ==
  \A r \in Slots :
    LET trace == req[r].trace
        later == {"start_relay", "forward_events", "increment_quota",
                  "append_session"}
    IN /\ \A i, j \in 1..Len(trace) :
            i < j => StepRank(trace[i]) < StepRank(trace[j])
       /\ trace # <<>> => trace[1] = "authenticate"
       /\ (\E step \in later : Took(r, step)) =>
            /\ req[r].status = 200
            /\ is_academic(req[r]) => Took(r, "check_quota")
       /\ req[r].endpoint = "stream" =>
            /\ Took(r, "forward_events") => Took(r, "start_relay")
            /\ (Took(r, "increment_quota") \/ Took(r, "append_session")) =>
                 (Took(r, "forward_events") /\ req[r].upstream = "ok")

HasLine(out, type) == \E i \in 1..Len(out) : out[i].type = type

HasChunk(chunks, type) == \E i \in 1..Len(chunks) : chunks[i].type = type

\* C21: for an ended stream of a quota-bound identity that names a session,
\* the counter was incremented and the turn appended, or neither.
C21_CompleteEffectsAreAtomic ==
  \A r \in Slots :
    (StreamEnded(r) /\ is_academic(req[r]) /\ req[r].session_id # NoSession) =>
      (req[r].ledger_written = 1 <=> req[r].turns_appended = 1)

\* C22: [DONE] is only ever the last line written, and the text of a stream
\* that ended without being cancelled ends with it, whether the stream ended
\* normally, with an upstream error or with an exception in generate.
C22_DoneIsWrittenOnceAndLast ==
  \A r \in Slots :
    LET out == relay[r].out
    IN /\ \A i \in 1..Len(out) : out[i] = Done => i = Len(out)
       /\ StreamEnded(r) => (out # <<>> /\ out[Len(out)] = Done)

\* a stream that generate ended in its except clause
C22_Witness ==
  \E r \in Slots :
    /\ StreamEnded(r)
    /\ req[r].storage_error = "increment"
    /\ HasLine(relay[r].out, "content")
    /\ relay[r].out[Len(relay[r].out)] = Done
    /\ Len(SelectSeq(relay[r].out, LAMBDA l : l = Done)) = 1

\* the messages are those of the last min(limit, Len(turns)) turns, oldest
\* first, a user message then an assistant message for each, then the question
ContextOf(turns, question, messages) ==
  LET k == IF Len(turns) < HistoryLimit THEN Len(turns) ELSE HistoryLimit
      first == Len(turns) - k
  IN /\ Len(messages) = 2 * k + 1
     /\ \A j \in 1..k :
          /\ messages[2 * j - 1] = Message("user", turns[first + j].question)
          /\ messages[2 * j] = Message("assistant", turns[first + j].response)
     /\ messages[2 * k + 1] = Message("user", question)

\* C23: the context built for a new question on a session is the last
\* HistoryLimit stored turns of that session at most, in chronological order,
\* each as a user message followed by its assistant message, followed by the
\* new question; with more turns stored, exactly the most recent HistoryLimit.
C23_ContextIsRecentTurnsThenQuestion ==
  [][(session_op'.n # session_op.n /\ session_op'.op = "context") =>
       ContextOf(IF session_op'.session_id = NoSession THEN <<>>
                 ELSE SessionHistory(sessions, session_op'.session_id),
                 session_op'.question, session_op'.messages)]_vars

\* a context built on a session that holds more than HistoryLimit turns
C23_Witness ==
  /\ session_op.op = "context"
  /\ session_op.session_id \in DOMAIN sessions
  /\ LET turns == sessions[session_op.session_id]
     IN /\ Len(turns) > HistoryLimit
        /\ Len(session_op.messages) = 2 * HistoryLimit + 1
        /\ session_op.messages[1] =
             Message("user", turns[Len(turns) - HistoryLimit + 1].question)

\* C24: clear_session leaves the session without a stored turn, so that its
\* history read in the resulting state is empty; it leaves the other sessions
\* alone and returns true whether or not the session held turns; on a session
\* without stored turns (as after a first clear) it changes nothing.
C24_ClearEmptiesAndReturnsTrue ==
  [][(session_op'.n # session_op.n /\ session_op'.op = "clear") =>
       LET session_id == session_op'.session_id
       IN /\ SessionHistory(sessions', session_id) = <<>>
          /\ session_op'.returned
          /\ \A other \in DOMAIN sessions \ {session_id} :
               SessionHistory(sessions', other) = sessions[other]
          /\ SessionHistory(sessions, session_id) = <<>> => sessions' = sessions
    ]_vars

\* a session that a request appended a turn to has been cleared
C24_Witness ==
  \E r \in Slots :
    /\ req[r].turns_appended = 1
    /\ req[r].session_id \in SessionIds
    /\ session_op.op = "clear"
    /\ session_op.session_id = req[r].session_id
    /\ session_op.returned
    /\ req[r].session_id \notin DOMAIN sessions

\* C25: every credential issued carries the requested type, its issue time
\* and issue time + TTL of its type as expiry, and none is issued while the
\* signing secret is not configured.
C25_IssueFailsWithoutSecret ==
  /\ \A i \in issued :
       /\ i.token.type \in {"access", "refresh"}
       /\ i.token.exp = i.iat + TokenExpire(i.token.type)
  /\ auth_jwt_secret = "" => issued = {}

\* C26: with a secret configured, decode_token returns the claims of every
\* credential whose signature verifies, expired or not, and none for the
\* others.
C26_DecodeDoesNotConflateExpired ==
  \A token \in Probes :
    auth_jwt_secret # "" =>
      (decode_token(token) <=>
         (token.type \notin {"none", "malformed"} /\ token.sig))

\* C27: a request whose quota check finds the store unreachable is answered
\* with an error and reaches neither the upstream nor the stream; a stream of
\* a quota-bound identity whose upstream completed writes the complete line
\* only when the increment was stored, and otherwise ends with an error line
\* followed by [DONE].
C27_StorageErrorsFailClosed ==
  \A r \in Slots :
    /\ req[r].storage_error = "check" =>
         /\ req[r].status = 500
         /\ req[r].pc = "done"
         /\ req[r].upstream_calls = 0
         /\ req[r].upstream = "none"
         /\ relay[r] = IdleRelay
    /\ (req[r].endpoint = "stream" /\ is_academic(req[r])
        /\ HasChunk(relay[r].chunks, "complete")) =>
         LET out == relay[r].out
         IN IF req[r].ledger_written = 1
            THEN HasLine(out, "complete") /\ ~HasLine(out, "error")
            ELSE /\ ~HasLine(out, "complete")
                 /\ req[r].pc = "done"
                 /\ Len(out) >= 2
                 /\ out[Len(out) - 1].type = "error"
                 /\ out[Len(out)] = Done

\* the increment of a completed stream found the store unreachable
C27_Witness ==
  \E r \in Slots :
    /\ req[r].endpoint = "stream"
    /\ req[r].storage_error = "increment"
    /\ req[r].upstream = "ok"
    /\ req[r].ledger_written = 0
    /\ HasLine(relay[r].out, "error")

\* the instants at which an identity registered, as the credentials issued
\* to it tell
Registrations(email) ==
  {i.iat : i \in {j \in issued : j.token.tier = "academic"
                                  /\ j.token.email = email}}

C29_RefreshPreservesIdentityAndTier ==
  (last.op = "refresh" /\ last.authenticated) =>
    /\ cookies.access_token.email = last.presented.email
    /\ cookies.access_token.tier = last.presented.tier
    /\ cookies.refresh_token.email = last.presented.email
    /\ cookies.refresh_token.tier = last.presented.tier

\* C30: the relay never yields the sentinel, and the consumer loop of a
\* stream that was not cancelled has ended by taking the sentinel off the
\* queue, so that nothing the producer put is left in the queue.
C30_SentinelEndsConsumerLoop ==
  \A r \in Slots :
    /\ \A i \in 1..Len(relay[r].yielded) : relay[r].yielded[i] # Sentinel
    /\ (StreamEnded(r) /\ relay[r].producer # "none"
        /\ req[r].storage_error = "none") =>
         relay[r].queue = <<>>

\* C31: whatever the outcome of the producer task, the sentinel is put once
\* and is the last item it puts; after an upstream fault exactly one error
\* event was put, immediately before the sentinel; otherwise no error event
\* is put.
C31_SentinelIsLastAndOnce ==
  \A r \in Slots :
    LET enqueued == relay[r].enqueued
        errors == SelectSeq(enqueued, LAMBDA e : e.type = "error")
    IN /\ \A i \in 1..Len(enqueued) : enqueued[i] = Sentinel => i = Len(enqueued)
       /\ relay[r].producer \in {"done", "cancelled"} =>
            (enqueued # <<>> /\ enqueued[Len(enqueued)] = Sentinel)
       /\ IF relay[r].producer = "done" /\ req[r].upstream = "failed"
          THEN /\ Len(errors) = 1
               /\ Len(enqueued) >= 2
               /\ enqueued[Len(enqueued) - 1].type = "error"
          ELSE errors = <<>>

\* a producer cancelled while it waited for the upstream, after a real event
C31_Witness ==
  \E r \in Slots :
    /\ relay[r].producer = "cancelled"
    /\ Len(relay[r].enqueued) >= 2
    /\ IsReal(relay[r].enqueued[1])
    /\ relay[r].enqueued[Len(relay[r].enqueued)] = Sentinel

CountOf(seq, type) == Len(SelectSeq(seq, LAMBDA x : x.type = type))

\* C32: every heartbeat, tool_call and tool_result chunk the relay hands to
\* generate is written to the outbound stream as a line of that type.
C32_HeartbeatsAndToolEventsAreWritten ==
  \A r \in Slots :
    \A type \in {"heartbeat", "tool_call", "tool_result"} :
      CountOf(relay[r].out, type) = CountOf(relay[r].chunks, type)

\* C33: the queue of a relay never holds more than a fixed number of items:
\* it never holds at once as many items as the upstream can yield real events
\* plus one, the producer waiting instead.
C33_QueueIsBounded ==
  \A r \in Slots : Len(relay[r].queue) <= MaxEvents

\* C37: a request admitted with a valid credential of another tier than the
\* academic one, or with no tier claim, or without credential when none is
\* required, is never answered 429, and neither reads nor writes the ledger.
C37_OnlyAcademicTierIsMetered ==
  \A r \in Slots :
    ((req[r].credential = "valid" /\ req[r].token.tier # "academic")
     \/ (~AuthRequired /\ req[r].pc # "idle")) =>
      /\ req[r].status \in {200, 503}
      /\ ~req[r].ledger_read
      /\ req[r].ledger_written = 0
      /\ req[r].quota_seen = -1
      /\ \A i \in 1..Len(req[r].trace) :
           req[r].trace[i] \notin {"check_quota", "increment_quota"}

\* a completed stream of an admin credential while the ledger holds a row
C37_Witness ==
  \E r \in Slots :
    /\ StreamEnded(r)
    /\ req[r].credential = "valid"
    /\ req[r].token.tier = ""
    /\ req[r].upstream = "ok"
    /\ HasLine(relay[r].out, "complete")
    /\ query_usage # {}

\* C34: under fair scheduling every stream that was started ends: its
\* consumer loop has stopped, its producer task is over and [DONE] is the
\* last line written.
C34_StartedStreamTerminates ==
  \A r \in Slots :
    (req[r].pc \in {"stream_pending", "streaming"}) ~>
      (/\ req[r].pc = "done"
       /\ relay[r].producer \in {"none", "done"}
       /\ relay[r].out # <<>>
       /\ relay[r].out[Len(relay[r].out)] = Done)

\* a stream that ended after a heartbeat and real events
C34_Witness ==
  \E r \in Slots :
    /\ StreamEnded(r)
    /\ relay[r].producer = "done"
    /\ relay[r].heartbeats > 0
    /\ \E i \in 1..Len(relay[r].yielded) : IsReal(relay[r].yielded[i])
    /\ relay[r].out[Len(relay[r].out)] = Done

\* C35: in every step the history of a session either stays as it is or
\* gains, at its end, the turn of the one request that completed on that
\* session in the step: no append replaces or drops a turn stored before,
\* also when it is the first of the session, and a session is not touched by
\* an append on another.
C35_AppendsLoseNoTurn ==
  [][\A session_id \in SessionIds \cup {OtherSession} :
       LET before == SessionHistory(sessions, session_id)
           after == SessionHistory(sessions', session_id)
           completed == {r \in Slots : /\ req[r].session_id = session_id
                                       /\ req'[r].question = req[r].question
                                       /\ req'[r].turns_appended =
                                            req[r].turns_appended + 1}
       IN IF completed = {} THEN after = before
          ELSE \E r \in completed :
                 /\ completed = {r}
                 /\ after = Append(before, Turn(req[r].question,
                                                relay[r].full_response))
    ]_vars

\* two requests were in flight together on one session, and the one that
\* arrived second stored its turn first
C35_Witness ==
  \E session_id \in DOMAIN sessions :
    /\ Len(sessions[session_id]) = 2
    /\ sessions[session_id][1].question > sessions[session_id][2].question

\* C36: a clear of session s leaves the stored turns of every other session
\* as they are and, while a request of another session is being answered by
\* the shared agent, does not clear the conversation history that agent keeps.
C36_ClearIsScopedToItsSession ==
  [][(session_op'.n # session_op.n /\ session_op'.op = "clear") =>
       LET session_id == session_op'.session_id
       IN /\ \A other \in DOMAIN sessions \ {session_id} :
               SessionHistory(sessions', other) = sessions[other]
          /\ (\E r \in Slots : /\ req[r].pc = "querying"
                                /\ req[r].session_id \notin {session_id, NoSession})
               => ~session_op'.agent_cleared]_vars

\* the count of the row (email, query_date) of a table, 0 when there is none
UsageCount(table, email, query_date) ==
  LET rows == UsageRows(table, email, query_date)
  IN IF rows = {} THEN 0 ELSE (CHOOSE row \in rows : TRUE).query_count

\* C38: in every step the count of a row (identity, day) stays as it is,
\* except that the row (I, today) of the identity I whose increment the step
\* performs grows by exactly 1; there is at most one row per (identity, day);
\* and a step in which no increment is performed, the steps that read the
\* remaining allowance and the quota among them, leaves the table as it is.
C38_CountersAreMonotonicAndIsolated ==
  [][LET written(q) ==
           IF req'[q].question = req[q].question THEN req[q].ledger_written ELSE 0
         incremented ==
           {NormalizeEmail(req'[r].email) :
              r \in {q \in Slots : req'[q].ledger_written = written(q) + 1}}
     IN /\ \A row \in query_usage' : <<row.email, row.query_date>> \in Keys
        /\ \A k \in Keys :
             /\ Cardinality(UsageRows(query_usage', k[1], k[2])) <= 1
             /\ UsageCount(query_usage', k[1], k[2]) =
                  UsageCount(query_usage, k[1], k[2])
                  + (IF k[1] \in incremented /\ k[2] = today THEN 1 ELSE 0)
        /\ (\A r \in Slots : req'[r].ledger_written = written(r))
             => query_usage' = query_usage
    ]_vars

\* an identity has a row of an earlier day and a row of today, each counted
\* once, and the request whose increment made the row of today has returned
C38_Witness ==
  \E email \in Identities, r \in Slots :
    /\ today > 0
    /\ UsageCount(query_usage, email, today - 1) = 1
    /\ UsageCount(query_usage, email, today) = 1
    /\ req[r].pc = "done" /\ req[r].ledger_written = 1

UpperChar(c) ==
  CASE c = "a" -> "A"
    [] c = "b" -> "B"
    [] OTHER -> c

\* the spellings of an email that differ from it in letter case or in
\* surrounding whitespace only
Spellings(email) ==
  {pre \o body \o post :
     pre \in {<<>>, <<" ">>}, post \in {<<>>, <<" ">>},
     body \in {email, [i \in 1..Len(email) |-> UpperChar(email[i])]}}

\* C39: for every spelling of an identity that differs in letter case or
\* surrounding whitespace, the remaining allowance and the quota read are
\* those of the identity, and an increment and a registration give the table
\* they give for the identity; a further increment or registration under any
\* spelling counts on the same row of today and keeps the one record.
C39_SpellingsAddressOneIdentity ==
  \A id \in Identities :
    LET spellings == Spellings(id)
        remaining == get_queries_remaining(id)
        quota == check_quota(id)
        usage == increment_usage(query_usage, id)
        users == register_email(academic_users, id)
        earlier == {row \in query_usage : row.email = id /\ row.query_date # today}
        count == UsageCount(query_usage, id, today)
    IN \A v \in spellings :
         LET usage_v == increment_usage(usage, v)
             users_v == register_email(users, v)
         IN /\ get_queries_remaining(v) = remaining
            /\ check_quota(v) = quota
            /\ increment_usage(query_usage, v) = usage
            /\ register_email(academic_users, v) = users
            /\ {row \in usage_v : row.email \in spellings} =
                 UsageRows(usage_v, id, today) \cup earlier
            /\ UsageCount(usage_v, id, today) = count + 2
            /\ Cardinality({u \in users_v : u.email \in spellings}) = 1
            /\ UserRows(users_v, id) # {}

\* an identity has used its allowance of today, and under another spelling
\* of it nothing remains and there is no quota
C39_Witness ==
  \E id \in Identities, r \in Slots :
    /\ req[r].pc = "done" /\ req[r].ledger_written = 1
    /\ NormalizeEmail(req[r].email) = id
    /\ UsageCount(query_usage, id, today) = DailyLimit
    /\ \E v \in Spellings(id) \ {id} : check_quota(v) = <<FALSE, 0>>

====
